---- MODULE Spec2Model ----
(***************************************************************************)
(* Model of the clinical-trials language dashboard (src/main.py).          *)
(*                                                                         *)
(* A text value is a sequence of one-character strings.  Missing values    *)
(* (pandas NaN), non-string values and the selectors' sentinels are        *)
(* one-element sequences whose element is not a character of any alphabet, *)
(* so they differ from every text value.  A table is a sequence of rows;   *)
(* the pandas index label of a row is its position in original_df, and a   *)
(* view of the table is the sequence of the index labels it keeps.         *)
(***************************************************************************)
EXTENDS Integers, Sequences, FiniteSets

VARIABLES csv, columns, original_df, geo_df,
          selected_category, filtered_df,
          sub_cat_df, selected_sub_category, sub_cat_filtered_df,
          selected_state, state_trials_original, error,
          value, parsed, pc

vars == <<csv, columns, original_df, geo_df, selected_category, filtered_df,
          sub_cat_df, selected_sub_category, sub_cat_filtered_df,
          selected_state, state_trials_original, error, value, parsed, pc>>

dashboard_vars == <<csv, columns, original_df, geo_df, selected_category,
                    filtered_df, sub_cat_df, selected_sub_category,
                    sub_cat_filtered_df, selected_state,
                    state_trials_original, error>>

(***************************************************************************)
(* Bounds                                                                  *)
(***************************************************************************)
MaxLen == 5
MaxRows == 2
MaxGeoRows == 3

(***************************************************************************)
(* Values and text primitives (Python str methods)                         *)
(***************************************************************************)
NaN == <<"NaN">>
NonString == <<"#number">>

Whitespace == {" "}
Quotes == {"'", "\""}

IsNa(v) == v = NaN

IsNumber(v) == v # <<>> /\ v[1] = "#number"

IsStr(v) == ~IsNa(v) /\ ~IsNumber(v)

RECURSIVE LStrip(_, _)
LStrip(s, chars) ==
    IF s # <<>> /\ Head(s) \in chars THEN LStrip(Tail(s), chars) ELSE s

RECURSIVE RStrip(_, _)
RStrip(s, chars) ==
    IF s # <<>> /\ s[Len(s)] \in chars
    THEN RStrip(SubSeq(s, 1, Len(s) - 1), chars)
    ELSE s

StripChars(s, chars) == RStrip(LStrip(s, chars), chars)

Strip(s) == StripChars(s, Whitespace)

StartsWith(s, c) == s # <<>> /\ s[1] = c

EndsWith(s, c) == s # <<>> /\ s[Len(s)] = c

Contains(s, c) == \E i \in 1..Len(s) : s[i] = c

\* str.split(sep): the pieces between separators; always at least one piece
RECURSIVE Split(_, _)
Split(s, sep) ==
    IF ~Contains(s, sep) THEN <<s>>
    ELSE LET k == CHOOSE i \in 1..Len(s) :
                      s[i] = sep /\ \A j \in 1..(i - 1) : s[j] # sep
         IN  <<SubSeq(s, 1, k - 1)>> \o Split(SubSeq(s, k + 1, Len(s)), sep)

MapSeq(f(_), s) == [i \in 1..Len(s) |-> f(s[i])]

NonEmpty(item) == item # <<>>

Elems(s) == {s[i] : i \in 1..Len(s)}

(***************************************************************************)
(* parse_sub_category                                                      *)
(***************************************************************************)
BracketItem(item) == StripChars(Strip(item), Quotes)

IsListLike(v) == StartsWith(v, "[") /\ EndsWith(v, "]")

ParseListLike(v) ==
    LET inner == Strip(SubSeq(v, 2, Len(v) - 1))
    IN  IF inner = <<>> THEN <<>>
        ELSE SelectSeq(MapSeq(BracketItem, Split(inner, ",")), NonEmpty)

ParseCommaSeparated(v) == SelectSeq(MapSeq(Strip, Split(v, ",")), NonEmpty)

parse_sub_category(raw) ==
    IF IsNa(raw) THEN <<>>
    ELSE IF ~IsStr(raw) THEN <<>>
    ELSE LET v == Strip(raw)
         IN  IF v = <<>> THEN <<>>
             ELSE IF IsListLike(v) THEN ParseListLike(v)
             ELSE IF Contains(v, ",") THEN ParseCommaSeparated(v)
             ELSE <<Strip(v)>>

(***************************************************************************)
(* Tables: pd.read_csv and the helpers shared by the aggregations          *)
(***************************************************************************)
Digits == {"0", "1", "2", "3", "4", "5", "6", "7", "8", "9"}

IsNumeric(text) == text # <<>> /\ \A i \in 1..Len(text) : text[i] \in Digits

\* the decimal digits of int(text): leading zeros are not part of a number
IntDigits(text) ==
    LET d == LStrip(text, {"0"}) IN IF d = <<>> THEN <<"0">> ELSE d

\* variant: keep_default_na=False, an empty field stays an empty string
ReadCellKeepEmpty(text) == text

\* read_csv turns an empty field into a missing value and keeps other text
ReadCell(text) == IF text = <<>> THEN NaN ELSE text

Column(file, name) == [i \in 1..Len(file) |-> file[i][name]]

\* read_csv infers a numeric dtype when every non-empty field is a number
NumericColumn(col) ==
    /\ \E i \in 1..Len(col) : col[i] # <<>>
    /\ \A i \in 1..Len(col) : col[i] = <<>> \/ IsNumeric(col[i])

ReadColumnCell(col, i) ==
    IF col[i] = <<>> THEN NaN
    ELSE IF NumericColumn(col) THEN <<"#number">> \o IntDigits(col[i])
    ELSE col[i]

read_csv(file) ==
    [i \in 1..Len(file) |->
        [category                |-> ReadCell(file[i].category),
         sub_category            |-> ReadCell(file[i].sub_category),
         other_language_criteria |-> ReadCell(file[i].other_language_criteria),
         first_zipcode           |->
             ReadColumnCell(Column(file, "first_zipcode"), i)]]

load_original_data(file) == read_csv(file)

RECURSIVE Concat(_)
Concat(ss) == IF ss = <<>> THEN <<>> ELSE Head(ss) \o Concat(Tail(ss))

\* Series.value_counts(): occurrences of each value, missing values excluded
value_counts(s) ==
    [v \in Elems(s) \ {NaN} |-> Cardinality({i \in 1..Len(s) : s[i] = v})]

Index(df) == [i \in 1..Len(df) |-> i]

(***************************************************************************)
(* Tab 1: category selection                                               *)
(***************************************************************************)
AllCategories == <<"All Categories">>

category_counts(df) == value_counts(Column(df, "category"))

CategoryOptions(df) == {AllCategories} \cup DOMAIN category_counts(df)

\* variant: the comparison also keeps the rows whose category is missing
FilterByCategoryNaKept(df, selected) ==
    IF selected = AllCategories THEN Index(df)
    ELSE LET Keep(i) == df[i].category = selected \/ IsNa(df[i].category)
         IN  SelectSeq(Index(df), Keep)

\* variant: the unfiltered branch drops the rows whose category is missing
FilterByCategoryDropNa(df, selected) ==
    LET Keep(i) == IF selected = AllCategories THEN ~IsNa(df[i].category)
                   ELSE df[i].category = selected
    IN  SelectSeq(Index(df), Keep)

FilterByCategory(df, selected) ==
    IF selected = AllCategories THEN Index(df)
    ELSE LET Keep(i) == df[i].category = selected
         IN  SelectSeq(Index(df), Keep)

(***************************************************************************)
(* Tab 1: sub-category explode and selection                               *)
(***************************************************************************)
AllSubCategories == <<"All Sub-Categories">>

\* variant: an empty list yields no row
ExplodeRowDropEmpty(i, tokens) ==
    [k \in 1..Len(tokens) |-> [idx |-> i, sub_category |-> tokens[k]]]

\* DataFrame.explode: one row per list element, the index label repeated;
\* an empty list yields one row whose value is missing
ExplodeRow(i, tokens) ==
    IF tokens = <<>> THEN <<[idx |-> i, sub_category |-> NaN]>>
    ELSE [k \in 1..Len(tokens) |-> [idx |-> i, sub_category |-> tokens[k]]]

Explode(df, view) ==
    Concat([k \in 1..Len(view) |->
               ExplodeRow(view[k], parse_sub_category(df[view[k]].sub_category))])

sub_cat_counts(exploded) == value_counts(Column(exploded, "sub_category"))

SubCategoryOptions(exploded) ==
    {AllSubCategories} \cup DOMAIN sub_cat_counts(exploded)

\* variant: the rows of the exploded table that carry the selected token
FilterBySubCategoryExploded(df, view, selected) ==
    IF selected = AllSubCategories THEN view
    ELSE LET Match(row) == row.sub_category = selected
             rows == SelectSeq(Explode(df, view), Match)
         IN  [k \in 1..Len(rows) |-> rows[k].idx]

\* variant: the raw sub_category text is compared with the selected token
FilterBySubCategoryRaw(df, view, selected) ==
    IF selected = AllSubCategories THEN view
    ELSE LET Keep(i) == df[i].sub_category = selected
         IN  SelectSeq(view, Keep)

FilterBySubCategory(df, view, selected) ==
    IF selected = AllSubCategories THEN view
    ELSE LET Keep(i) ==
                 selected \in Elems(parse_sub_category(df[i].sub_category))
         IN  SelectSeq(view, Keep)

(***************************************************************************)
(* count_other_languages                                                   *)
(***************************************************************************)
SplitLanguages(v) == MapSeq(Strip, Split(v, ","))

OtherLanguageColumn(df, view) ==
    [k \in 1..Len(view) |-> df[view[k]].other_language_criteria]

NotNa(v) == ~IsNa(v)

AllLanguages(col) == Concat(MapSeq(SplitLanguages, SelectSeq(col, NotNa)))

\* variant: total_languages counts the distinct languages
count_other_languages_unique(df, view) ==
    LET col == OtherLanguageColumn(df, view)
        all_languages == AllLanguages(col)
    IN  IF "other_language_criteria" \in columns
        THEN [total_with_other |-> Len(SelectSeq(col, NotNa)),
              total_languages  |->
                  Cardinality(DOMAIN value_counts(all_languages)),
              language_counts  |-> value_counts(all_languages)]
        ELSE [total_with_other |-> 0, total_languages |-> 0,
              language_counts |-> value_counts(<<>>)]

count_other_languages(df, view) ==
    LET col == OtherLanguageColumn(df, view)
        all_languages == AllLanguages(col)
    IN  IF "other_language_criteria" \in columns
        THEN [total_with_other |-> Len(SelectSeq(col, NotNa)),
              total_languages  |-> Len(all_languages),
              language_counts  |-> value_counts(all_languages)]
        ELSE [total_with_other |-> 0, total_languages |-> 0,
              language_counts |-> value_counts(<<>>)]

(***************************************************************************)
(* load_geographical_data and the state selection of tab 2                 *)
(***************************************************************************)
\* Series.astype(str): str() of each value; a numeric column that holds a
\* missing value is float64, otherwise int64
AsTypeStr(col, i) ==
    IF IsNa(col[i]) THEN <<"n", "a", "n">>
    ELSE IF IsNumber(col[i])
         THEN IF \E j \in 1..Len(col) : IsNa(col[j])
              THEN Tail(col[i]) \o <<".", "0">>
              ELSE Tail(col[i])
    ELSE col[i]

IsZipAt(s, p) == p + 4 <= Len(s) /\ \A k \in 0..4 : s[p + k] \in Digits

\* variant: a shorter all-digit value is left-padded with zeros to five digits
ExtractZipPadded(s) ==
    IF \E p \in 1..Len(s) : IsZipAt(s, p)
    THEN LET p == CHOOSE q \in 1..Len(s) :
                      IsZipAt(s, q) /\ \A r \in 1..(q - 1) : ~IsZipAt(s, r)
         IN  SubSeq(s, p, p + 4)
    ELSE IF IsNumeric(s)
         THEN [k \in 1..(5 - Len(s)) |-> "0"] \o s
    ELSE NaN

\* str.extract(r'(\d{5})'): the leftmost five consecutive digits
ExtractZip(s) ==
    IF \E p \in 1..Len(s) : IsZipAt(s, p)
    THEN LET p == CHOOSE q \in 1..Len(s) :
                      IsZipAt(s, q) /\ \A r \in 1..(q - 1) : ~IsZipAt(s, r)
         IN  SubSeq(s, p, p + 4)
    ELSE NaN

\* nomi.query_postal_code: the state of a postal code, missing when unknown
Geocoder(zip) ==
    IF zip = <<"1", "1", "1", "1", "1">> THEN <<"C", "A">>
    ELSE IF zip = <<"0", "1", "1", "1", "1">> THEN <<"M", "A">>
    ELSE NaN

load_geographical_data(file) ==
    LET df == read_csv(file)
        col == Column(df, "first_zipcode")
        zip_clean == [i \in 1..Len(df) |-> ExtractZip(AsTypeStr(col, i))]
        HasZip(i) == ~IsNa(zip_clean[i])
        kept == SelectSeq(Index(df), HasZip)
    IN  [k \in 1..Len(kept) |->
            [idx        |-> kept[k],
             zip_clean  |-> zip_clean[kept[k]],
             state_code |-> Geocoder(zip_clean[kept[k]])]]

AllStates == <<"All States">>

state_counts(geo) == value_counts(Column(geo, "state_code"))

StateOptions(geo) == {AllStates} \cup DOMAIN state_counts(geo)

\* variant: the rows of geo_df are matched by position, not by index label
FilterByStatePositional(df, geo, selected) ==
    IF selected = AllStates THEN Index(df)
    ELSE LET state_trial_ids ==
                 {j \in 1..Len(geo) : geo[j].state_code = selected}
             Keep(i) == i \in state_trial_ids
         IN  SelectSeq(Index(df), Keep)

FilterByState(df, geo, selected) ==
    IF selected = AllStates THEN Index(df)
    ELSE LET state_trial_ids ==
                 {geo[k].idx : k \in {j \in 1..Len(geo) :
                                         geo[j].state_code = selected}}
             Keep(i) == i \in state_trial_ids
         IN  SelectSeq(Index(df), Keep)

(***************************************************************************)
(* The dashboard: one script run per interaction                           *)
(***************************************************************************)
\* tab 2 renders its selector only when geo_df is not empty
StateView(df, geo, selected) ==
    IF geo = <<>> THEN <<>> ELSE FilterByState(df, geo, selected)

AllColumns ==
    {"category", "sub_category", "english_is_inclusion",
     "non_english_is_exclusion", "other_language_criteria", "first_zipcode"}

\* a name the script run never assigned holds no table; whether it was
\* assigned is decided by the columns, never by comparing with this value
Undefined == <<>>

NoError == "none"

\* line 113 reads df['first_zipcode']
LoadGeo(cols, file) ==
    IF "first_zipcode" \in cols THEN load_geographical_data(file)
    ELSE Undefined

\* filtered_df is assigned only inside the branch that found 'category'
CategorySectionRuns(cols) == "first_zipcode" \in cols /\ "category" \in cols

CategoryView(cols, df, cat) ==
    IF CategorySectionRuns(cols) THEN FilterByCategory(df, cat) ELSE Undefined

\* the sub-category section reads filtered_df whenever 'sub_category' exists
\* and completes only if filtered_df was assigned
SubCategorySectionRuns(cols) ==
    "sub_category" \in cols /\ CategorySectionRuns(cols)

ExplodedView(cols, df, view) ==
    IF SubCategorySectionRuns(cols) THEN Explode(df, view) ELSE Undefined

SubCategoryView(cols, df, view, sub) ==
    IF SubCategorySectionRuns(cols)
    THEN FilterBySubCategory(df, view, sub)
    ELSE Undefined

\* the exception that ends the script run, if any
ScriptError(cols) ==
    IF "first_zipcode" \notin cols THEN "KeyError"
    ELSE IF "sub_category" \in cols /\ "category" \notin cols THEN "NameError"
    ELSE NoError

\* tab 2 is reached only by a run that has not raised
StateTab(err, df, geo, st) ==
    IF err = NoError THEN StateView(df, geo, st) ELSE Undefined

\* variant: the state view is narrowed by the category selection as well
RunStateComposed(cat, sub, st) ==
    /\ selected_category' = cat
    /\ filtered_df' = CategoryView(columns', original_df', cat)
    /\ sub_cat_df' = ExplodedView(columns', original_df', filtered_df')
    /\ selected_sub_category' = sub
    /\ sub_cat_filtered_df' =
           SubCategoryView(columns', original_df', filtered_df', sub)
    /\ error' = ScriptError(columns')
    /\ selected_state' = st
    /\ state_trials_original' =
           LET Keep(i) == i \in Elems(filtered_df')
           IN  SelectSeq(StateTab(error', original_df', geo_df', st), Keep)

\* one run of the script under the given selections
Run(cat, sub, st) ==
    /\ selected_category' = cat
    /\ filtered_df' = CategoryView(columns', original_df', cat)
    /\ sub_cat_df' = ExplodedView(columns', original_df', filtered_df')
    /\ selected_sub_category' = sub
    /\ sub_cat_filtered_df' =
           SubCategoryView(columns', original_df', filtered_df', sub)
    /\ error' = ScriptError(columns')
    /\ selected_state' = st
    /\ state_trials_original' = StateTab(error', original_df', geo_df', st)

\* a selectbox keeps its value across runs while the value is still offered
KeptSubCategory(cat) ==
    {AllSubCategories} \cup
    ({selected_sub_category} \cap
        (IF "sub_category" \in columns
         THEN SubCategoryOptions(Explode(original_df,
                                         FilterByCategory(original_df, cat)))
         ELSE {}))

SelectCategory ==
    /\ pc = "dashboard"
    /\ CategorySectionRuns(columns)
    /\ \E cat \in CategoryOptions(original_df) \ {selected_category} :
         \E sub \in KeptSubCategory(cat) :
            /\ UNCHANGED <<csv, columns, original_df, geo_df, value, parsed, pc>>
            /\ Run(cat, sub, selected_state)

SelectSubCategory ==
    /\ pc = "dashboard"
    /\ SubCategorySectionRuns(columns)
    /\ \E sub \in SubCategoryOptions(sub_cat_df) \ {selected_sub_category} :
            /\ UNCHANGED <<csv, columns, original_df, geo_df, value, parsed, pc>>
            /\ Run(selected_category, sub, selected_state)

SelectState ==
    /\ pc = "dashboard"
    /\ error = NoError
    /\ geo_df # <<>>
    /\ \E st \in StateOptions(geo_df) \ {selected_state} :
            /\ UNCHANGED <<csv, columns, original_df, geo_df, value, parsed, pc>>
            /\ Run(selected_category, selected_sub_category, st)

Next == SelectCategory \/ SelectSubCategory \/ SelectState

\* the first run of the script on a given input file with the given columns
FirstRun(files, column_sets) ==
    /\ csv \in files
    /\ columns \in column_sets
    /\ original_df = load_original_data(csv)
    /\ geo_df = LoadGeo(columns, csv)
    /\ selected_category = AllCategories
    /\ filtered_df = CategoryView(columns, original_df, AllCategories)
    /\ sub_cat_df = ExplodedView(columns, original_df, filtered_df)
    /\ selected_sub_category = AllSubCategories
    /\ sub_cat_filtered_df =
           SubCategoryView(columns, original_df, filtered_df, AllSubCategories)
    /\ error = ScriptError(columns)
    /\ selected_state = AllStates
    /\ state_trials_original =
           StateTab(error, original_df, geo_df, AllStates)
    /\ value = NaN
    /\ parsed = <<>>
    /\ pc = "dashboard"

\* the first run of the script on a given input file that has every column
InitOn(files) == FirstRun(files, {AllColumns})

Files(rows, n) == UNION {[1..k -> rows] : k \in 0..n}

CategoryCells == {<<>>, <<"C", "V", "D">>, <<"M", "e", "t">>}

SubCategoryCells ==
    {<<>>, <<" ">>, <<"a">>, <<"a", ",", "a">>, <<"a", ",", " ", "b">>,
     <<"[", "b", "]">>}

LanguageCells ==
    {<<>>, <<" ">>, <<"S">>, <<"F">>, <<"S", ",", "S">>,
     <<"S", ",", " ", "F">>}

ZipCells ==
    {<<>>, <<"1", "1", "1", "1">>, <<"1", "1", "1", "1", "1">>,
     <<"0", "1", "1", "1", "1">>, <<"1", "1", "1", "1", "1", "1">>,
     <<"2", "2", "2", "2", "2">>, <<"1", "1", "1", "1", "1", "-">>}

\* input files that vary the category and sub_category columns
CategoryRows ==
    [category : CategoryCells, sub_category : SubCategoryCells,
     other_language_criteria : {<<"S">>},
     first_zipcode : {<<"1", "1", "1", "1", "1">>}]

Init == InitOn(Files(CategoryRows, MaxRows))

Spec == Init /\ [][Next]_vars

\* input files that vary the columns of all three selectors
SelectorRows ==
    [category : {<<>>, <<"C", "V", "D">>},
     sub_category : {<<>>, <<"a">>},
     other_language_criteria : {<<"S">>},
     first_zipcode : {<<"1", "1", "1", "1", "1">>, <<"1", "1", "1", "1">>}]

InitSelect == InitOn(Files(SelectorRows, MaxRows))

SpecSelect == InitSelect /\ [][Next]_vars

\* input files that lack at most one of the optional columns; the fields of
\* an absent column are empty
ColumnRows ==
    [category : {<<>>, <<"C", "V", "D">>},
     sub_category : {<<>>, <<"a">>},
     other_language_criteria : {<<>>, <<"S">>},
     first_zipcode : {<<>>, <<"1", "1", "1", "1", "1">>}]

ColumnSets == {AllColumns} \cup {AllColumns \ {c} : c \in AllColumns}

AbsentColumnsEmpty ==
    \A i \in 1..Len(csv) :
        \A c \in {"category", "sub_category", "other_language_criteria",
                  "first_zipcode"} \ columns : csv[i][c] = <<>>

InitColumns ==
    /\ FirstRun(Files(ColumnRows, MaxRows), ColumnSets)
    /\ AbsentColumnsEmpty

SpecColumns == InitColumns /\ [][Next]_vars

\* input files that vary the other_language_criteria column
LanguageRows ==
    [category : {<<"C", "V", "D">>, <<"M", "e", "t">>},
     sub_category : {<<"a">>},
     other_language_criteria : LanguageCells,
     first_zipcode : {<<"1", "1", "1", "1", "1">>}]

InitLang == InitOn(Files(LanguageRows, MaxRows))

SpecLang == InitLang /\ [][Next]_vars

\* input files that vary the first_zipcode column
GeoRows ==
    [category : {<<"C", "V", "D">>},
     sub_category : {<<"a">>},
     other_language_criteria : {<<"S">>},
     first_zipcode : ZipCells]

InitGeo == InitOn(Files(GeoRows, MaxGeoRows))

SpecGeo == InitGeo /\ [][Next]_vars

(***************************************************************************)
(* Specification of parse_sub_category as a function of one raw value      *)
(***************************************************************************)
ParseAlphabet == {"a", " ", ",", "[", "]", "'"}

ParseInputs ==
    {NaN, NonString} \cup UNION {[1..n -> ParseAlphabet] : n \in 0..MaxLen}

EmptyDashboard ==
    /\ csv = <<>>
    /\ columns = AllColumns
    /\ error = NoError
    /\ original_df = <<>>
    /\ geo_df = <<>>
    /\ selected_category = <<"All Categories">>
    /\ filtered_df = <<>>
    /\ sub_cat_df = <<>>
    /\ selected_sub_category = <<"All Sub-Categories">>
    /\ sub_cat_filtered_df = <<>>
    /\ selected_state = <<"All States">>
    /\ state_trials_original = <<>>

InitParse ==
    /\ EmptyDashboard
    /\ value \in ParseInputs
    /\ parsed = <<>>
    /\ pc = "call"

Parse ==
    /\ pc = "call"
    /\ parsed' = parse_sub_category(value)
    /\ pc' = "return"
    /\ UNCHANGED <<value, dashboard_vars>>

NextParse == Parse

SpecParse == InitParse /\ [][NextParse]_vars

(***************************************************************************)
(* The percentages and averages a script run evaluates, each with the      *)
(* denominator it divides by                                               *)
(***************************************************************************)
Ratio(site, den) == [site |-> site, den |-> den]

\* variant: the per-language percentages are guarded by the row count
SectionRatiosRowGuard(df, view) ==
    LET summary == count_other_languages(df, view)
        n == Len(view)
    IN  (IF n > 0
         THEN {Ratio("english_included", n), Ratio("non_english_excluded", n),
               Ratio("total_with_other", n)}
         ELSE {})
        \cup (IF summary.total_with_other > 0
              THEN {Ratio("avg_langs", summary.total_with_other)}
              ELSE {})
        \cup (IF n > 0
              THEN {Ratio("Percentage", summary.total_with_other)}
              ELSE {})

\* the category section and the sub-category section of tab 1
SectionRatios(df, view) ==
    LET summary == count_other_languages(df, view)
        n == Len(view)
    IN  (IF n > 0
         THEN {Ratio("english_included", n), Ratio("non_english_excluded", n),
               Ratio("total_with_other", n)}
         ELSE {})
        \cup (IF summary.total_with_other > 0
              THEN {Ratio("avg_langs", summary.total_with_other)}
              ELSE {})
        \cup (IF DOMAIN summary.language_counts # {}
              THEN {Ratio("Percentage", summary.total_with_other)}
              ELSE {})

\* the selection statistics of tab 2
StateRatios(df, view) ==
    LET summary == count_other_languages(df, view)
        total_trials == Len(view)
    IN  IF total_trials > 0
        THEN {Ratio("percentage", Len(df)),
              Ratio("english_included", total_trials),
              Ratio("non_english_excluded", total_trials),
              Ratio("total_with_other", total_trials)}
             \cup (IF summary.total_with_other > 0
                   THEN {Ratio("avg_langs", summary.total_with_other)}
                   ELSE {})
             \cup (IF DOMAIN summary.language_counts # {}
                   THEN {Ratio("Percentage", summary.total_with_other)}
                   ELSE {})
        ELSE {}

Ratios ==
    (IF CategorySectionRuns(columns)
     THEN SectionRatios(original_df, filtered_df)
     ELSE {})
    \cup (IF SubCategorySectionRuns(columns)
          THEN SectionRatios(original_df, sub_cat_filtered_df)
          ELSE {})
    \cup (IF error = NoError /\ geo_df # <<>>
          THEN StateRatios(original_df, state_trials_original)
          ELSE {})

(***************************************************************************)
(* The download buttons of a script run                                    *)
(***************************************************************************)
UpperCase ==
    <<"A", "B", "C", "D", "E", "F", "G", "H", "I", "J", "K", "L", "M",
      "N", "O", "P", "Q", "R", "S", "T", "U", "V", "W", "X", "Y", "Z">>

LowerCase ==
    <<"a", "b", "c", "d", "e", "f", "g", "h", "i", "j", "k", "l", "m",
      "n", "o", "p", "q", "r", "s", "t", "u", "v", "w", "x", "y", "z">>

\* str.lower() on one character
LowerChar(c) ==
    IF \E k \in 1..Len(UpperCase) : UpperCase[k] = c
    THEN LowerCase[CHOOSE k \in 1..Len(UpperCase) : UpperCase[k] = c]
    ELSE c

Lower(text) == [i \in 1..Len(text) |-> LowerChar(text[i])]

\* str.replace(" ", "_")
ReplaceSpaces(text) ==
    [i \in 1..Len(text) |-> IF text[i] = " " THEN "_" ELSE text[i]]

\* the text of a selection: the sentinels spelled out
LabelText(selected) ==
    IF selected = AllCategories
    THEN <<"A", "l", "l", " ", "C", "a", "t", "e", "g", "o", "r", "i", "e",
           "s">>
    ELSE IF selected = AllSubCategories
    THEN <<"A", "l", "l", " ", "S", "u", "b", "-", "C", "a", "t", "e", "g",
           "o", "r", "i", "e", "s">>
    ELSE IF selected = AllStates
    THEN <<"A", "l", "l", " ", "S", "t", "a", "t", "e", "s">>
    ELSE selected

Suffix == <<"_", "t", "r", "i", "a", "l", "s", ".", "c", "s", "v">>

FileName(selected) == ReplaceSpaces(Lower(LabelText(selected))) \o Suffix

\* to_csv writes a missing value as an empty field and a number by str()
ToCsvCell(col, i) == IF IsNa(col[i]) THEN <<>> ELSE AsTypeStr(col, i)

\* convert_df_to_csv: the rows of the view, in order, without the index
convert_df_to_csv(df, view) ==
    [k \in 1..Len(view) |->
        [category |-> ToCsvCell(Column(df, "category"), view[k]),
         sub_category |-> ToCsvCell(Column(df, "sub_category"), view[k]),
         other_language_criteria |->
             ToCsvCell(Column(df, "other_language_criteria"), view[k]),
         first_zipcode |-> ToCsvCell(Column(df, "first_zipcode"), view[k])]]

Download(key, selected, df, view) ==
    [key |-> key, file_name |-> FileName(selected),
     data |-> convert_df_to_csv(df, view)]

Downloads ==
    (IF CategorySectionRuns(columns)
     THEN {Download("cat_download", selected_category, original_df,
                    filtered_df)}
     ELSE {})
    \cup (IF /\ SubCategorySectionRuns(columns)
             /\ DOMAIN count_other_languages(original_df,
                     sub_cat_filtered_df).language_counts # {}
          THEN {Download("sub_cat_download", selected_sub_category,
                         original_df, sub_cat_filtered_df)}
          ELSE {})
    \cup (IF /\ error = NoError
             /\ geo_df # <<>>
             /\ Len(state_trials_original) > 0
          THEN {Download("state_download", selected_state, original_df,
                         state_trials_original)}
          ELSE {})

(***************************************************************************)
(* Properties                                                              *)
(***************************************************************************)
RECURSIVE SumSeq(_)
SumSeq(ns) == IF ns = <<>> THEN 0 ELSE Head(ns) + SumSeq(Tail(ns))

RECURSIVE SumCounts(_)
SumCounts(counts) ==
    IF DOMAIN counts = {} THEN 0
    ELSE LET v == CHOOSE x \in DOMAIN counts : TRUE
         IN  counts[v] + SumCounts([x \in DOMAIN counts \ {v} |-> counts[x]])

Increasing(view) ==
    \A k \in 1..Len(view) : \A l \in 1..Len(view) : k < l => view[k] < view[l]

TokenCount(i) == Len(parse_sub_category(original_df[i].sub_category))

TokenCounts(view) == [k \in 1..Len(view) |-> TokenCount(view[k])]

ExplodedRowsOf(i) == {k \in 1..Len(sub_cat_df) : sub_cat_df[k].idx = i}

\* C1: when a specific category C is selected, every record of the category
\* view has category C and the view has as many rows as the category value
\* counts of the table report for C.
C1_CategoryFilterMatchesCounts ==
    selected_category # AllCategories =>
        /\ \A k \in 1..Len(filtered_df) :
               original_df[filtered_df[k]].category = selected_category
        /\ Len(filtered_df) = category_counts(original_df)[selected_category]

C1_Witness ==
    /\ selected_category = <<"C", "V", "D">>
    /\ Len(filtered_df) >= 1
    /\ Len(filtered_df) < Len(original_df)
    /\ \E i \in 1..Len(original_df) : IsNa(original_df[i].category)

\* C2: the ALL sentinel of each selector is the identity on the selector's
\* input table: the category view is the whole base table, the sub-category
\* view is the category view, the state view is the whole base table, each
\* with the same rows in the same order.
C2_AllIsIdentity ==
    /\ selected_category = AllCategories =>
           filtered_df = [i \in 1..Len(original_df) |-> i]
    /\ selected_sub_category = AllSubCategories =>
           sub_cat_filtered_df = filtered_df
    /\ (selected_state = AllStates /\ geo_df # <<>>) =>
           state_trials_original = [i \in 1..Len(original_df) |-> i]

C2_Witness ==
    /\ selected_category = AllCategories
    /\ selected_sub_category = AllSubCategories
    /\ selected_state = AllStates
    /\ Len(original_df) >= 2
    /\ \E i \in 1..Len(original_df) : IsNa(original_df[i].category)
    /\ \E i \in 1..Len(original_df) : TokenCount(i) = 0
    /\ \E i \in 1..Len(original_df) :
           \A k \in 1..Len(geo_df) : geo_df[k].idx # i
    /\ geo_df # <<>>

\* C3: when a specific sub-category token S is selected, the sub-category
\* view holds exactly the records of the category view whose parsed
\* sub_category contains S, each once, in the original row order.
C3_SubCategoryFilter ==
    selected_sub_category # AllSubCategories =>
        /\ Increasing(sub_cat_filtered_df)
        /\ Elems(sub_cat_filtered_df) =
               {i \in Elems(filtered_df) :
                   \E k \in 1..TokenCount(i) :
                       parse_sub_category(original_df[i].sub_category)[k] =
                           selected_sub_category}

C3_Witness ==
    /\ selected_sub_category = <<"a">>
    /\ \E i \in Elems(sub_cat_filtered_df) :
           Cardinality({k \in ExplodedRowsOf(i) :
                           sub_cat_df[k].sub_category = <<"a">>}) >= 2
    /\ Len(sub_cat_filtered_df) < Len(filtered_df)

\* C4 as stated: the exploded view has as many rows as the records of the
\* category view have tokens in total (a record without tokens adds no row).
C4_ExplodedRowCountIsTokenSum ==
    Len(sub_cat_df) = SumSeq(TokenCounts(filtered_df))

\* C4 amended: the rows of the exploded view that carry a token number the
\* sum over the records of their token counts, and so do the sub-category
\* value counts; a record that parses to zero tokens contributes exactly one
\* row, whose sub_category is missing and which the value counts leave out.
C4_ExplodedTokenRows ==
    /\ Cardinality({k \in 1..Len(sub_cat_df) :
                       ~IsNa(sub_cat_df[k].sub_category)}) =
           SumSeq(TokenCounts(filtered_df))
    /\ SumCounts(sub_cat_counts(sub_cat_df)) = SumSeq(TokenCounts(filtered_df))
    /\ \A i \in Elems(filtered_df) :
           TokenCount(i) = 0 =>
               /\ Cardinality(ExplodedRowsOf(i)) = 1
               /\ \A k \in ExplodedRowsOf(i) : IsNa(sub_cat_df[k].sub_category)

C4_Witness ==
    /\ \E i \in Elems(filtered_df) : TokenCount(i) = 0
    /\ \E i \in Elems(filtered_df) : TokenCount(i) >= 2
    /\ Len(sub_cat_df) > SumSeq(TokenCounts(filtered_df))

Malformed(v) == StartsWith(v, "[") # EndsWith(v, "]")

\* C5: parse_sub_category returns the empty sequence for every malformed
\* bracket string (an opening '[' without a closing ']' or a closing ']'
\* without an opening '[').
C5_MalformedYieldsEmpty ==
    (pc = "return" /\ IsStr(value) /\ Malformed(Strip(value))) =>
        parsed = <<>>

\* C6: every token parse_sub_category returns for a string is non-empty and
\* has no surrounding whitespace, in the bracketed form no surrounding quote
\* character either, and an empty or whitespace-only string yields no token.
C6_TokensTrimmed ==
    (pc = "return" /\ IsStr(value)) =>
        /\ \A k \in 1..Len(parsed) :
               /\ parsed[k] # <<>>
               /\ parsed[k][1] \notin Whitespace
               /\ parsed[k][Len(parsed[k])] \notin Whitespace
               /\ IsListLike(Strip(value)) =>
                      /\ parsed[k][1] \notin Quotes
                      /\ parsed[k][Len(parsed[k])] \notin Quotes
        /\ Strip(value) = <<>> => parsed = <<>>

\* the records of a view whose other_language_criteria field is not empty
PresentLanguageRows(view) ==
    LET Present(i) == csv[i].other_language_criteria # <<>>
    IN  SelectSeq(view, Present)

LanguageViews == {filtered_df, sub_cat_filtered_df, state_trials_original}

C8_MentionsAtLeastTrials ==
    \A view \in LanguageViews :
        view # <<>> =>
            count_other_languages(original_df, view).total_languages >=
                count_other_languages(original_df, view).total_with_other

C8_Witness ==
    LET summary == count_other_languages(original_df, filtered_df)
    IN  /\ selected_category # AllCategories
        /\ summary.total_with_other >= 2
        /\ summary.total_languages > summary.total_with_other
        /\ Cardinality(DOMAIN summary.language_counts) <
               summary.total_with_other

HasFiveDigits(text) == \E p \in 1..Len(text) : IsZipAt(text, p)

GeoRowsOf(i) == {k \in 1..Len(geo_df) : geo_df[k].idx = i}

HasState(i) == \E k \in GeoRowsOf(i) : ~IsNa(geo_df[k].state_code)

\* C9: a specific state selection yields exactly the base records whose
\* index label is that of a geo_df record with the selected state_code, each
\* once; a record without a five-digit zip is in no such selection.
C9_StateSelection ==
    selected_state # AllStates =>
        LET ids == {i \in 1..Len(original_df) :
                       \E k \in GeoRowsOf(i) :
                           geo_df[k].state_code = selected_state}
        IN  /\ Elems(state_trials_original) = ids
            /\ Len(state_trials_original) = Cardinality(ids)
            /\ \A i \in 1..Len(csv) :
                   ~HasFiveDigits(csv[i].first_zipcode) =>
                       i \notin Elems(state_trials_original)

C9_Witness ==
    /\ selected_state = <<"C", "A">>
    /\ state_trials_original # <<>>
    /\ \E i \in 1..Len(original_df) :
           /\ GeoRowsOf(i) = {}
           /\ \E j \in Elems(state_trials_original) : i < j

\* a maximal run of digits that is exactly five digits long
HasExactlyFiveDigits(text) ==
    \E p \in 1..Len(text) :
        /\ IsZipAt(text, p)
        /\ p = 1 \/ text[p - 1] \notin Digits
        /\ p + 5 > Len(text) \/ text[p + 5] \notin Digits

NoLookupEntry(i) ==
    \A k \in GeoRowsOf(i) : IsNa(Geocoder(geo_df[k].zip_clean))

Stateless(i) ==
    /\ ~HasState(i)
    /\ selected_state # AllStates => i \notin Elems(state_trials_original)
    /\ SumCounts(state_counts(geo_df)) =
           Cardinality({j \in 1..Len(original_df) : HasState(j)})
    /\ i \in 1..Len(original_df)
    /\ (selected_state = AllStates /\ geo_df # <<>>) =>
           i \in Elems(state_trials_original)
    /\ selected_category = AllCategories => i \in Elems(filtered_df)

\* C10 as stated: a record whose first_zipcode has no digit run of exactly
\* five digits, or whose cleaned zip has no state in the lookup, has no
\* state_code, is counted under no state and stays in the base table.
C10_NotExactlyFiveDigitsStateless ==
    \A i \in 1..Len(csv) :
        (~HasExactlyFiveDigits(csv[i].first_zipcode) \/ NoLookupEntry(i)) =>
            Stateless(i)

\* C10 amended: a record whose first_zipcode has no five consecutive digits
\* (missing, or every digit run shorter than five), or whose cleaned zip (the
\* first five digits of the first such run) has no state in the lookup, has
\* no state_code, is counted under no state and stays in the base table.
C10_NoFiveDigitsStateless ==
    \A i \in 1..Len(csv) :
        (~HasFiveDigits(csv[i].first_zipcode) \/ NoLookupEntry(i)) =>
            Stateless(i)

C10_Witness ==
    /\ selected_state # AllStates
    /\ \E i \in 1..Len(csv) :
           /\ csv[i].first_zipcode = <<"1", "1", "1", "1">>
           /\ GeoRowsOf(i) = {}
    /\ \E i \in 1..Len(csv) :
           /\ GeoRowsOf(i) # {}
           /\ NoLookupEntry(i)
    /\ \E i \in 1..Len(csv) : HasState(i)

C15_OfferedTokenSelectsRows ==
    selected_sub_category # AllSubCategories =>
        /\ selected_sub_category \in DOMAIN sub_cat_counts(sub_cat_df)
        /\ Len(sub_cat_filtered_df) >= 1
        /\ Len(sub_cat_filtered_df) <=
               sub_cat_counts(sub_cat_df)[selected_sub_category]

C15_Witness ==
    /\ selected_sub_category = <<"a">>
    /\ selected_category # AllCategories
    /\ Len(sub_cat_filtered_df) >= 1
    /\ Len(sub_cat_filtered_df) < sub_cat_counts(sub_cat_df)[<<"a">>]
    /\ Len(sub_cat_filtered_df) < Len(filtered_df)

\* C12: when the input table lacks exactly one optional column, the script
\* run completes without raising.
C12_MissingColumnDoesNotRaise ==
    Cardinality(AllColumns \ columns) = 1 => error = NoError

\* the file name the label determines: lower-cased, spaces replaced by
\* underscores, followed by "_trials.csv"
NamedAfter(name, label) ==
    /\ Len(name) = Len(label) + 11
    /\ SubSeq(name, Len(label) + 1, Len(name)) =
           <<"_", "t", "r", "i", "a", "l", "s", ".", "c", "s", "v">>
    /\ \A i \in 1..Len(label) :
           /\ label[i] = " " => name[i] = "_"
           /\ \A k \in 1..26 : label[i] = UpperCase[k] => name[i] = LowerCase[k]
           /\ (label[i] # " " /\ \A k \in 1..26 : label[i] # UpperCase[k]) =>
                  name[i] = label[i]

ExportFor(key, selected, view) ==
    \E d \in Downloads :
        /\ d.key = key
        /\ Len(d.data) = Len(view)
        /\ \A k \in 1..Len(view) :
               d.data[k].sub_category = csv[view[k]].sub_category
        /\ NamedAfter(d.file_name, LabelText(selected))

\* C13: for the current selection of each of the three selectors a CSV
\* export of exactly the selected table is produced, named after the active
\* filter label.
C13_ExportPerSelection ==
    /\ ExportFor("cat_download", selected_category, filtered_df)
    /\ ExportFor("sub_cat_download", selected_sub_category,
                 sub_cat_filtered_df)
    /\ geo_df # <<>> =>
           ExportFor("state_download", selected_state, state_trials_original)

SubsetChain ==
    /\ Elems(sub_cat_filtered_df) \subseteq Elems(filtered_df)
    /\ Elems(filtered_df) \subseteq 1..Len(original_df)

SelectorsIndependent ==
    /\ selected_state' = selected_state =>
           state_trials_original' = state_trials_original
    /\ (/\ selected_category' = selected_category
        /\ selected_sub_category' = selected_sub_category) =>
           /\ filtered_df' = filtered_df
           /\ sub_cat_filtered_df' = sub_cat_filtered_df

\* C14: the sub-category view is a subset of the category view, which is a
\* subset of the base table; a step that keeps the state selection keeps the
\* state view, and a step that keeps the category and sub-category
\* selections keeps the category and sub-category views.
C14_ChainAndIndependence == []SubsetChain /\ [][SelectorsIndependent]_vars

C14_Witness ==
    /\ selected_category # AllCategories
    /\ selected_sub_category # AllSubCategories
    /\ selected_state # AllStates
    /\ Len(filtered_df) < Len(original_df)
    /\ \E i \in Elems(state_trials_original) : i \notin Elems(filtered_df)

====
